---- MODULE Spec2Model ----
(***************************************************************************)
(* Model of Reviews/app.py: the Streamlit script that looks an app up in   *)
(* the iTunes search API, fetches its customer-review feed and asks the    *)
(* chat-completion API for a summary and a list of improvements.           *)
(*                                                                         *)
(* Text that the script converts (str(), int(), f-strings, join, strip)    *)
(* is a sequence of one-character strings, so the conversions are computed *)
(* as Python computes them.                                                *)
(***************************************************************************)
EXTENDS Integers, Sequences, FiniteSets, TLC

VARIABLES api_key, pc, button, app_name, limit, screen, calls,
          search_resp, app_id, found_name, feed_resp, fetched, reviews,
          text, summary, improvements

vars == <<api_key, pc, button, app_name, limit, screen, calls,
          search_resp, app_id, found_name, feed_resp, fetched, reviews,
          text, summary, improvements>>

----------------------------------------------------------------------------
(* Bounds of the model.                                                    *)

\* longest results array of a search response
MaxResults == 2
\* longest entry array of a feed, for the calls of fetch_reviews alone
MaxFeed == 3
\* largest requested count, for the calls of fetch_reviews alone
MaxCount == 2
\* longest entry array of a feed inside a user action
MaxUiFeed == 3

----------------------------------------------------------------------------
(* JSON / Python values.  A value is a record with a tag t; "absent" is a  *)
(* key that the enclosing object does not have.                            *)

Absent == [t |-> "absent", i |-> 0, s |-> <<>>]
PyNone == [t |-> "none", i |-> 0, s |-> <<>>]
PyIntV(n) == [t |-> "int", i |-> n, s |-> <<>>]
PyStrV(s) == [t |-> "str", i |-> 0, s |-> s]

\* dict.get(key, default)
Get(v, default) == IF v.t = "absent" THEN default ELSE v

\* Python truth value of None, an int or a str (`if not x`)
Truthy(v) ==
    CASE v.t = "none" -> FALSE
      [] v.t = "absent" -> FALSE
      [] v.t = "int" -> v.i # 0
      [] v.t = "str" -> v.s # <<>>

DigitChars == <<"0", "1", "2", "3", "4", "5", "6", "7", "8", "9">>

IsDigit(c) == \E d \in 1..10 : DigitChars[d] = c

DigitVal(c) == (CHOOSE d \in 1..10 : DigitChars[d] = c) - 1

RECURSIVE NatToStr(_)
NatToStr(n) ==
    IF n < 10 THEN <<DigitChars[n + 1]>>
    ELSE NatToStr(n \div 10) \o <<DigitChars[(n % 10) + 1]>>

\* str(n) of an int
IntToStr(n) == IF n < 0 THEN <<"-">> \o NatToStr(0 - n) ELSE NatToStr(n)

\* str(v): "None" for None, the decimal digits of an int, a str unchanged
PyStr(v) ==
    CASE v.t = "none" -> <<"N", "o", "n", "e">>
      [] v.t = "int" -> IntToStr(v.i)
      [] v.t = "str" -> v.s

RECURSIVE DigitsToNat(_, _)
DigitsToNat(s, acc) ==
    IF s = <<>> THEN acc
    ELSE DigitsToNat(Tail(s), acc * 10 + DigitVal(Head(s)))

\* int(v): [ok, v]; ok = FALSE is the ValueError / TypeError int() raises.
\* A str is an optional sign and decimal digits (the labels of the model
\* carry no surrounding blanks and no underscores, which int() also takes).
PyInt(v) ==
    CASE v.t = "int" -> [ok |-> TRUE, v |-> v.i]
      [] v.t = "str" ->
           LET signed == v.s # <<>> /\ Head(v.s) \in {"-", "+"}
               body == IF signed THEN Tail(v.s) ELSE v.s
           IN  IF body = <<>> \/ \E k \in 1..Len(body) : ~IsDigit(body[k])
               THEN [ok |-> FALSE, v |-> 0]
               ELSE [ok |-> TRUE,
                     v |-> IF signed /\ Head(v.s) = "-"
                           THEN 0 - DigitsToNat(body, 0)
                           ELSE DigitsToNat(body, 0)]
      [] OTHER -> [ok |-> FALSE, v |-> 0]

\* s[a:b] of a list, for 0 <= a and 0 <= b
Slice(s, a, b) ==
    LET hi == IF b < Len(s) THEN b ELSE Len(s)
    IN  IF a >= hi THEN <<>> ELSE SubSeq(s, a + 1, hi)

----------------------------------------------------------------------------
(* What the three upstream services may answer.                            *)

\* one element of the search response's results array: a JSON object with
\* (or without) trackId and trackName, or a JSON value that is no object
Result(id, name) == [obj |-> TRUE, trackId |-> id, trackName |-> name]
NonObject == [obj |-> FALSE, trackId |-> Absent, trackName |-> Absent]

TrackIds == {Absent, PyIntV(0), PyIntV(12), PyStrV(<<>>)}
TrackNames == {Absent, PyStrV(<<"T">>)}
Results == {Result(id, name) : id \in TrackIds, name \in TrackNames}
             \cup {NonObject}

SeqsUpTo(S, n) == UNION {[1..k -> S] : k \in 0..n}

\* status "http_error": the GET failed or raise_for_status() raised
HttpError == [status |-> "http_error", has_results |-> FALSE, results |-> <<>>]
SearchBody(has, rs) == [status |-> "ok", has_results |-> has, results |-> rs]
NoSearch == [status |-> "none", has_results |-> FALSE, results |-> <<>>]
SearchResponses ==
    {HttpError, SearchBody(FALSE, <<>>)}
      \cup {SearchBody(TRUE, rs) : rs \in SeqsUpTo(Results, MaxResults)}

\* one element of feed.entry: title and content are the values of
\* e["title"]["label"] and e["content"]["label"] (Absent: a key is missing),
\* rating is the value of e["im:rating"]["label"] (Absent: either key is)
Entry(title, content, rating) ==
    [title |-> title, content |-> content, rating |-> rating]

EntryShapes ==
    { Entry(PyStrV(<<"A">>), PyStrV(<<"x">>), PyStrV(<<"5">>)),
      Entry(PyStrV(<<"B">>), PyStrV(<<"y">>), PyStrV(<<"0">>)),
      Entry(PyStrV(<<"A">>), PyStrV(<<"y">>), Absent),
      Entry(PyStrV(<<"B">>), PyStrV(<<"x">>), PyIntV(4)),
      Entry(PyStrV(<<"B">>), PyStrV(<<"x">>), PyStrV(<<"7">>)),
      Entry(PyStrV(<<"A">>), PyStrV(<<"x">>), PyStrV(<<"-", "3">>)),
      Entry(PyStrV(<<"A">>), PyStrV(<<"x">>), PyStrV(<<"a">>)),
      Entry(Absent, PyStrV(<<"x">>), PyStrV(<<"5">>)),
      Entry(PyStrV(<<"A">>), Absent, PyStrV(<<"5">>)) }

FeedHttpError == [status |-> "http_error", has_entry |-> FALSE, entry |-> <<>>]
FeedBody(has, es) == [status |-> "ok", has_entry |-> has, entry |-> es]
NoFeed == [status |-> "none", has_entry |-> FALSE, entry |-> <<>>]
\* the entry shapes met inside a user action: two different well-formed
\* reviews, one without a rating, one whose rating is no number
UiEntryShapes ==
    { Entry(PyStrV(<<"A">>), PyStrV(<<"x">>), PyStrV(<<"5">>)),
      Entry(PyStrV(<<"B">>), PyStrV(<<"y">>), PyStrV(<<"0">>)),
      Entry(PyStrV(<<"A">>), PyStrV(<<"y">>), Absent),
      Entry(PyStrV(<<"A">>), PyStrV(<<"x">>), PyStrV(<<"a">>)) }

FeedResponses(shapes, n) ==
    {FeedHttpError, FeedBody(FALSE, <<>>)}
      \cup {FeedBody(TRUE, es) : es \in SeqsUpTo(shapes, n)}

\* the answer to one chat-completion request: the API raised ("fault"), or
\* it returned choices[0].message.content (PyNone when the content is null)
Completion(status, content) == [status |-> status, content |-> content]
Completions ==
    { Completion("fault", PyNone),
      Completion("ok", PyNone),
      Completion("ok", PyStrV(<<"m">>)),
      Completion("ok", PyStrV(<<" ", "m", " ">>)) }

----------------------------------------------------------------------------
(* The helper functions of app.py.                                         *)

Raise == [fault |-> TRUE, id |-> PyNone, name |-> PyNone]
Return(id, name) == [fault |-> FALSE, id |-> id, name |-> name]

\* search_app with str() applied to the absent identifier as well
search_app_str_none(r) ==
    IF r.status # "ok" THEN Raise
    ELSE LET results == IF r.has_results THEN r.results ELSE <<>>
         IN  IF results = <<>>
             THEN Return(PyStrV(PyStr(PyNone)), PyNone)
             ELSE LET app == results[1]
                  IN  IF ~app.obj THEN Raise
                      ELSE Return(PyStrV(PyStr(Get(app.trackId, PyNone))),
                                  Get(app.trackName, PyNone))

\* search_app taking results[-1] instead of results[0]
search_app_last(r) ==
    IF r.status # "ok" THEN Raise
    ELSE LET results == IF r.has_results THEN r.results ELSE <<>>
         IN  IF results = <<>> THEN Return(PyNone, PyNone)
             ELSE LET app == results[Len(results)]
                  IN  IF ~app.obj THEN Raise
                      ELSE Return(PyStrV(PyStr(Get(app.trackId, PyNone))),
                                  Get(app.trackName, PyNone))

\* search_app, given the response of the search GET
search_app(r) ==
    IF r.status # "ok" THEN Raise
    ELSE LET results == IF r.has_results THEN r.results ELSE <<>>
         IN  IF results = <<>> THEN Return(PyNone, PyNone)
             ELSE LET app == results[1]
                  IN  IF ~app.obj THEN Raise
                      ELSE Return(PyStrV(PyStr(Get(app.trackId, PyNone))),
                                  Get(app.trackName, PyNone))

\* the rating of one entry: int(e.get("im:rating", {}).get("label", 0))
EntryRating(e) == PyInt(Get(e.rating, PyIntV(0)))

\* the dict literal of the loop body raises (KeyError, ValueError, TypeError)
EntryFaults(e) ==
    \/ e.title.t = "absent"
    \/ e.content.t = "absent"
    \/ ~EntryRating(e).ok

Review(e) ==
    [title |-> e.title, content |-> e.content, rating |-> EntryRating(e).v]

\* fetch_reviews, given the response of the feed GET and the limit
fetch_reviews(resp, lim) ==
    IF resp.status # "ok" THEN [fault |-> TRUE, reviews |-> <<>>]
    ELSE LET all == IF resp.has_entry THEN resp.entry ELSE <<>>
             entries == Slice(all, 1, lim + 1)
         IN  IF \E k \in 1..Len(entries) : EntryFaults(entries[k])
             THEN [fault |-> TRUE, reviews |-> <<>>]
             ELSE [fault |-> FALSE,
                   reviews |-> [k \in 1..Len(entries) |-> Review(entries[k])]]

\* the item numbered i instead of i+1
FormatItem_zero_based(i, r) ==
    IntToStr(i) \o <<".", " ", "[">> \o IntToStr(r.rating)
      \o <<"/", "5", "]", " ">> \o PyStr(r.title)
      \o <<" ", "-", " ">> \o PyStr(r.content)

\* f"{i+1}. [{r['rating']}/5] {r['title']} - {r['content']}", i 0-based
FormatItem(i, r) ==
    IntToStr(i + 1) \o <<".", " ", "[">> \o IntToStr(r.rating)
      \o <<"/", "5", "]", " ">> \o PyStr(r.title)
      \o <<" ", "-", " ">> \o PyStr(r.content)

RECURSIVE Join(_, _)
\* sep.join(items)
Join(sep, items) ==
    IF items = <<>> THEN <<>>
    ELSE IF Len(items) = 1 THEN items[1]
    ELSE items[1] \o sep \o Join(sep, Tail(items))

\* the text block with a placeholder for an empty list
Transcript_guarded(rs) ==
    IF rs = <<>> THEN <<"(", "n", "o", "n", "e", ")">>
    ELSE Join(<<"\n", "\n">>, [k \in 1..Len(rs) |-> FormatItem(k - 1, rs[k])])

\* the text block of analyze_reviews_openai
Transcript(rs) ==
    Join(<<"\n", "\n">>, [k \in 1..Len(rs) |-> FormatItem(k - 1, rs[k])])

IsSpace(c) == c \in {" ", "\n", "\t"}

RECURSIVE LStrip(_)
LStrip(s) == IF s # <<>> /\ IsSpace(Head(s)) THEN LStrip(Tail(s)) ELSE s

RECURSIVE RStrip(_)
RStrip(s) ==
    IF s # <<>> /\ IsSpace(s[Len(s)]) THEN RStrip(SubSeq(s, 1, Len(s) - 1))
    ELSE s

\* str.strip()
Strip(s) == RStrip(LStrip(s))

----------------------------------------------------------------------------
(* The script.  Streamlit runs it from the top on every interaction; pc is *)
(* the place the current run has reached:                                  *)
(*   "config"  before the configuration block                              *)
(*   "search" / "fetch" / "summary" / "improve"  before that request       *)
(*   "done"    the run ended normally, "stopped" st.stop() ended it,       *)
(*   "faulted" an exception ended it.                                      *)

SummaryMaxTokens == 400
ImproveMaxTokens == 200
SliderDefault == 50
SliderValues == {10, 20, 30, 40, 50}
AppNames == {"", "Testcraft"}
ApiKeys == {PyNone, PyStrV(<<>>), PyStrV(<<"k">>)}

\* one element drawn on the page
Item(kind, n, s) == [kind |-> kind, n |-> n, s |-> s]

\* one request sent to an upstream service: status is how the request
\* ended, raised whether the helper that sent it ended with an exception
Call(kind, status, raised, id, max_tokens, txt) ==
    [kind |-> kind, status |-> status, raised |-> raised, id |-> id,
     max_tokens |-> max_tokens, text |-> txt]

HttpStatus(r) == IF r.status = "ok" THEN "ok" ELSE "fault"

\* `if openai.api_key is None`
KeyMissing_none_only(k) == k.t = "none"

\* `if not openai.api_key`
KeyMissing(k) == ~Truthy(k)

\* the exception swallowed
NextPc_swallow(fault, next) == next

\* no try/except anywhere: an exception ends the run, else it goes on
NextPc(fault, next) == IF fault THEN "faulted" ELSE next

\* what a step leaves on the page: the traceback, or its own output
Shown(fault, scr, items) ==
    IF fault THEN Append(scr, Item("exception", 0, <<>>)) ELSE scr \o items

\* the result elements without the improvements block
RenderResults_summary_only(s, i) ==
    << Item("subheader_summary", 0, <<>>), Item("summary", 0, s) >>

\* the four result elements drawn after analyze_reviews_openai returned
RenderResults(s, i) ==
    << Item("subheader_summary", 0, <<>>), Item("summary", 0, s),
       Item("subheader_improvements", 0, <<>>), Item("improvements", 0, i) >>

Idle == pc \in {"done", "stopped", "faulted"}

\* a fresh run of the script: its variables and the page start empty
Rerun(b) ==
    /\ pc' = "config"
    /\ button' = b
    /\ screen' = <<>>
    /\ calls' = <<>>
    /\ search_resp' = NoSearch
    /\ app_id' = PyNone
    /\ found_name' = PyNone
    /\ feed_resp' = NoFeed
    /\ fetched' = FALSE
    /\ reviews' = <<>>
    /\ text' = <<>>
    /\ summary' = <<>>
    /\ improvements' = <<>>

Init ==
    /\ api_key \in ApiKeys
    /\ pc = "config"
    /\ button = FALSE
    /\ app_name = ""
    /\ limit = SliderDefault
    /\ screen = <<>>
    /\ calls = <<>>
    /\ search_resp = NoSearch
    /\ app_id = PyNone
    /\ found_name = PyNone
    /\ feed_resp = NoFeed
    /\ fetched = FALSE
    /\ reviews = <<>>
    /\ text = <<>>
    /\ summary = <<>>
    /\ improvements = <<>>

\* the user reloads the page: a new session with the widgets' defaults
Reload ==
    /\ Idle
    /\ Rerun(FALSE)
    /\ app_name' = ""
    /\ limit' = SliderDefault
    /\ UNCHANGED api_key

\* the user edits the text input (it exists only if the run got past st.stop)
SetAppName ==
    /\ pc \in {"done", "faulted"}
    /\ \E n \in AppNames : n # app_name /\ app_name' = n
    /\ Rerun(FALSE)
    /\ UNCHANGED <<api_key, limit>>

\* the user moves the slider
SetLimit ==
    /\ pc \in {"done", "faulted"}
    /\ \E l \in SliderValues : l # limit /\ limit' = l
    /\ Rerun(FALSE)
    /\ UNCHANGED <<api_key, app_name>>

\* the user presses "Analyze Reviews"
ClickAnalyze ==
    /\ pc \in {"done", "faulted"}
    /\ Rerun(TRUE)
    /\ UNCHANGED <<api_key, app_name, limit>>

\* the configuration block, then the page header, the widgets and the button
Configuration ==
    /\ pc = "config"
    /\ IF KeyMissing(api_key)
       THEN /\ screen' = <<Item("error_key", 0, <<>>)>>
            /\ pc' = "stopped"
       ELSE /\ screen' = <<Item("title", 0, <<>>)>>
            /\ pc' = IF button THEN "search" ELSE "done"
    /\ UNCHANGED <<api_key, button, app_name, limit, calls, search_resp,
                   app_id, found_name, feed_resp, fetched, reviews, text,
                   summary, improvements>>

\* search_app(app_name) and the branch on its result
SearchApp ==
    /\ pc = "search"
    /\ \E r \in SearchResponses :
         LET res == search_app(r)
         IN  /\ calls' = Append(calls, Call("search", HttpStatus(r), res.fault,
                                            <<>>, 0, <<>>))
             /\ search_resp' = r
             /\ app_id' = res.id
             /\ found_name' = res.name
             /\ screen' = Shown(res.fault, screen,
                                IF Truthy(res.id)
                                THEN <<Item("success", 0, PyStr(res.id))>>
                                ELSE <<Item("error_noapp", 0, <<>>)>>)
             /\ pc' = NextPc(res.fault,
                             IF Truthy(res.id) THEN "fetch" ELSE "done")
    /\ UNCHANGED <<api_key, button, app_name, limit, feed_resp, fetched,
                   reviews, text, summary, improvements>>

\* fetch_reviews(app_id, limit=limit) against one of the given feeds, and
\* st.write of the count
FetchReviewsOf(feeds) ==
    /\ pc = "fetch"
    /\ \E r \in feeds :
         LET res == fetch_reviews(r, limit)
         IN  /\ calls' = Append(calls,
                           Call("feed", HttpStatus(r), res.fault,
                                PyStr(app_id), 0, <<>>))
             /\ feed_resp' = r
             /\ fetched' = ~res.fault
             /\ reviews' = res.reviews
             /\ screen' = Shown(res.fault, screen,
                                <<Item("fetched", Len(res.reviews), <<>>)>>)
             /\ pc' = NextPc(res.fault, "summary")
    /\ search_resp' = NoSearch
    /\ UNCHANGED <<api_key, button, app_name, limit, app_id, found_name,
                   text, summary, improvements>>

FetchReviews == FetchReviewsOf(FeedResponses(UiEntryShapes, MaxUiFeed))

\* a failed completion request taken for an empty answer
CompletionFaults_ignored(c) == FALSE

\* the request raised, or choices[0].message.content.strip() did on a null
\* content
CompletionFaults(c) == c.status = "fault" \/ c.content.t # "str"

\* analyze_reviews_openai up to the summary
AnalyzeSummary ==
    /\ pc = "summary"
    /\ \E c \in Completions :
         LET txt == Transcript(reviews)
         IN  /\ text' = txt
             /\ calls' = Append(calls, Call("summary", c.status,
                                            CompletionFaults(c), <<>>,
                                            SummaryMaxTokens, txt))
             /\ summary' = IF CompletionFaults(c) THEN <<>>
                           ELSE Strip(c.content.s)
             /\ screen' = Shown(CompletionFaults(c), screen, <<>>)
             /\ pc' = NextPc(CompletionFaults(c), "improve")
    /\ feed_resp' = NoFeed
    /\ UNCHANGED <<api_key, button, app_name, limit, search_resp, app_id,
                   found_name, fetched, reviews, improvements>>

\* the rest of analyze_reviews_openai, and the result blocks
AnalyzeImprove ==
    /\ pc = "improve"
    /\ \E c \in Completions :
         LET imp == IF CompletionFaults(c) THEN <<>> ELSE Strip(c.content.s)
         IN  /\ calls' = Append(calls, Call("improve", c.status,
                                            CompletionFaults(c), <<>>,
                                            ImproveMaxTokens, text))
             /\ improvements' = imp
             /\ screen' = Shown(CompletionFaults(c), screen,
                                RenderResults(summary, imp))
             /\ pc' = NextPc(CompletionFaults(c), "done")
    /\ UNCHANGED <<api_key, button, app_name, limit, search_resp, app_id,
                   found_name, feed_resp, fetched, reviews, text, summary>>

Next ==
    \/ Configuration
    \/ Reload
    \/ SetAppName
    \/ SetLimit
    \/ ClickAnalyze
    \/ SearchApp
    \/ FetchReviews
    \/ AnalyzeSummary
    \/ AnalyzeImprove

Spec == Init /\ [][Next]_vars

----------------------------------------------------------------------------
(* fetch_reviews on its own: any count from 0 up, any feed.                *)

FetchInit ==
    /\ api_key = PyStrV(<<"k">>)
    /\ pc = "fetch"
    /\ button = TRUE
    /\ app_name = "Testcraft"
    /\ limit \in 0..MaxCount
    /\ screen = <<Item("title", 0, <<>>), Item("success", 0, <<"1", "2">>)>>
    /\ calls = <<Call("search", "ok", FALSE, <<>>, 0, <<>>)>>
    /\ search_resp = NoSearch
    /\ app_id = PyStrV(<<"1", "2">>)
    /\ found_name = PyStrV(<<"T">>)
    /\ feed_resp = NoFeed
    /\ fetched = FALSE
    /\ reviews = <<>>
    /\ text = <<>>
    /\ summary = <<>>
    /\ improvements = <<>>

FetchCall == FetchReviewsOf(FeedResponses(EntryShapes, MaxFeed))

FetchNext == FetchCall

FetchSpec == FetchInit /\ [][FetchNext]_vars

----------------------------------------------------------------------------
(* Properties.                                                             *)

Min(a, b) == IF a < b THEN a ELSE b
Max(a, b) == IF a > b THEN a ELSE b

CallsOfKind(kind) == {k \in 1..Len(calls) : calls[k].kind = kind}
OnScreen(kind) == \E k \in 1..Len(screen) : screen[k].kind = kind

\* the results array the last search response carried
SeenResults == IF search_resp.has_results THEN search_resp.results ELSE <<>>

\* the entry array the last feed response carried
SeenEntries == IF feed_resp.has_entry THEN feed_resp.entry ELSE <<>>

\* C1: when the search response carries zero results, search_app returns
\* (None, None), the run ends on the 'No app found' error, and the search GET
\* is the only request of the action: no feed and no completion request.
C1_NoResults ==
    (search_resp.status = "ok" /\ SeenResults = <<>>) =>
        /\ app_id = PyNone
        /\ found_name = PyNone
        /\ pc = "done"
        /\ screen[Len(screen)].kind = "error_noapp"
        /\ ~OnScreen("success")
        /\ Len(calls) = 1
        /\ calls[1].kind = "search"

C1_Witness ==
    /\ search_resp = SearchBody(TRUE, <<>>)
    /\ pc = "done"
    /\ OnScreen("error_noapp")

\* C5 as stated: whenever the results array has at least one element,
\* search_app returns a non-empty identifier that is str() of the first
\* result's trackId and the first result's trackName, and the run goes on to
\* the fetch step with that identifier, whatever fields the first result
\* (a JSON object) has and whatever their values are.
C5_AnyShape ==
    /\ (search_resp.status = "ok" /\ SeenResults # <<>> /\ SeenResults[1].obj) =>
          /\ app_id.t = "str"
          /\ app_id.s # <<>>
          /\ app_id.s = PyStr(Get(SeenResults[1].trackId, PyNone))
          /\ found_name = Get(SeenResults[1].trackName, PyNone)
          /\ pc = "fetch"
          /\ screen[Len(screen)] = Item("success", 0, app_id.s)
    /\ CallsOfKind("feed") # {} =>
          /\ app_id.t = "str"
          /\ calls[2].kind = "feed"
          /\ calls[2].id = app_id.s

\* C5 amended: the same, for a first result that is a JSON object whose
\* trackId is not the empty string (a missing trackId gives "None").
C5_ObjectWithId ==
    /\ ( /\ search_resp.status = "ok"
         /\ SeenResults # <<>>
         /\ SeenResults[1].obj
         /\ SeenResults[1].trackId # PyStrV(<<>>) ) =>
          /\ app_id.t = "str"
          /\ app_id.s # <<>>
          /\ app_id.s = PyStr(Get(SeenResults[1].trackId, PyNone))
          /\ found_name = Get(SeenResults[1].trackName, PyNone)
          /\ pc = "fetch"
          /\ screen[Len(screen)] = Item("success", 0, app_id.s)
    /\ CallsOfKind("feed") # {} =>
          /\ app_id.t = "str"
          /\ calls[2].kind = "feed"
          /\ calls[2].id = app_id.s

C5_Witness ==
    /\ Len(SeenResults) = 2
    /\ SeenResults[1] = Result(Absent, PyStrV(<<"T">>))
    /\ SeenResults[2] = Result(PyIntV(12), Absent)
    /\ app_id = PyStrV(<<"N", "o", "n", "e">>)
    /\ pc = "fetch"

\* C2: for a feed of n entries and a count c >= 0, fetch_reviews returns,
\* without a fault, exactly min(c, max(n-1, 0)) records, never more than c,
\* the i-th of them built from entry i+1 of the feed (stated for feeds whose
\* entries all carry a title and a content, as the feed format has them).
C2_Count ==
    ( /\ pc # "fetch"
      /\ feed_resp.status = "ok"
      /\ \A k \in 1..Len(SeenEntries) :
           SeenEntries[k].title.t # "absent" /\ SeenEntries[k].content.t # "absent" ) =>
        LET n == Len(SeenEntries)
        IN  /\ fetched
            /\ Len(reviews) = Min(limit, Max(n - 1, 0))
            /\ Len(reviews) <= limit
            /\ \A k \in 1..Len(reviews) :
                 /\ reviews[k].title = SeenEntries[k + 1].title
                 /\ reviews[k].content = SeenEntries[k + 1].content

\* a rating label that is no decimal number from 0 to 5
Malformed(v) ==
    /\ v.t # "absent"
    /\ ~(v.t = "int" /\ v.i \in 0..5)
    /\ ~(v.t = "str" /\ Len(v.s) = 1 /\ v.s[1] \in {"0", "1", "2", "3", "4", "5"})

\* C3: every record fetch_reviews returns has an integer rating in 0..5, and
\* an entry whose rating is missing or malformed gives a record of rating 0
\* instead of a fault (stated for feeds whose entries all carry a title and a
\* content, so that the rating is the only field in question).
C3_Rating ==
    ( /\ pc # "fetch"
      /\ feed_resp.status = "ok"
      /\ \A k \in 1..Len(SeenEntries) :
           SeenEntries[k].title.t # "absent" /\ SeenEntries[k].content.t # "absent" ) =>
        LET used == Slice(SeenEntries, 1, limit + 1)
        IN  /\ fetched
            /\ Len(reviews) = Len(used)
            /\ \A k \in 1..Len(reviews) :
                 /\ reviews[k].rating \in 0..5
                 /\ (used[k].rating.t = "absent" \/ Malformed(used[k].rating))
                      => reviews[k].rating = 0

RECURSIVE SplitBlank(_, _)
\* the pieces of s between blank lines, cur being the piece in progress
SplitBlank(s, cur) ==
    IF s = <<>> THEN <<cur>>
    ELSE IF Len(s) >= 2 /\ s[1] = "\n" /\ s[2] = "\n"
         THEN <<cur>> \o SplitBlank(SubSeq(s, 3, Len(s)), <<>>)
         ELSE SplitBlank(Tail(s), Append(cur, Head(s)))

ItemsOf(txt) == IF txt = <<>> THEN <<>> ELSE SplitBlank(txt, <<>>)

\* C4: the transcript has one item per review, the k-th (k from 1) reading
\* "k. [rating/5] title - content" of the k-th review, and the summary
\* request and the improvements request carry the same transcript.
C4_Transcript ==
    /\ \A c \in CallsOfKind("summary") :
         LET items == ItemsOf(calls[c].text)
         IN  /\ Len(items) = Len(reviews)
             /\ \A k \in 1..Len(reviews) :
                  items[k] = IntToStr(k) \o <<".", " ", "[">>
                             \o IntToStr(reviews[k].rating) \o <<"/", "5", "]", " ">>
                             \o reviews[k].title.s \o <<" ", "-", " ">>
                             \o reviews[k].content.s
    /\ \A c \in CallsOfKind("improve") :
         /\ CallsOfKind("summary") = {c - 1}
         /\ calls[c].text = calls[c - 1].text

C4_Witness ==
    /\ Len(reviews) = 2
    /\ reviews[1].title # reviews[2].title
    /\ reviews[1].rating # reviews[2].rating
    /\ CallsOfKind("improve") # {}

\* C6: with the API key unset or empty the run shows the error and stops
\* before any widget exists; no search, feed or completion request is issued.
C6_NoKeyNoRequest ==
    (api_key = PyNone \/ api_key = PyStrV(<<>>)) =>
        /\ calls = <<>>
        /\ pc \in {"config", "stopped"}
        /\ pc = "stopped" => screen = <<Item("error_key", 0, <<>>)>>
        /\ ~button

C6_Witness ==
    /\ api_key = PyStrV(<<>>)
    /\ pc = "stopped"
    /\ OnScreen("error_key")

\* C7: a fault ends the action: a request whose helper raised is the last
\* request of the action and leaves the run faulted, so nothing follows a
\* faulted search, feed or summary request, and no request is sent twice.
C7_FaultTerminal ==
    /\ \A k \in 1..Len(calls) :
         (calls[k].raised \/ calls[k].status = "fault") =>
             /\ k = Len(calls)
             /\ pc = "faulted"
             /\ screen[Len(screen)].kind = "exception"
    /\ \A j, k \in 1..Len(calls) : j # k => calls[j].kind # calls[k].kind
    /\ pc = "faulted" => calls # <<>> /\ calls[Len(calls)].raised

C7_Witness ==
    /\ pc = "faulted"
    /\ Len(calls) = 3
    /\ calls[3].kind = "summary"
    /\ calls[3].status = "fault"

CallOrder == <<"search", "feed", "summary", "improve">>

\* C8: the requests of one action are a prefix of search GET, feed GET,
\* summary request (400 tokens), improvements request (200 tokens), each
\* sent once and only after all earlier ones succeeded; the result blocks are
\* drawn only after the fourth.
C8_CallOrder ==
    /\ Len(calls) <= 4
    /\ \A k \in 1..Len(calls) :
         /\ calls[k].kind = CallOrder[k]
         /\ k < Len(calls) => calls[k].status = "ok" /\ ~calls[k].raised
         /\ calls[k].kind = "summary" => calls[k].max_tokens = 400
         /\ calls[k].kind = "improve" => calls[k].max_tokens = 200
    /\ pc \in {"config", "search"} => calls = <<>>
    /\ pc = "fetch" => Len(calls) = 1
    /\ pc = "summary" => Len(calls) = 2
    /\ pc = "improve" => Len(calls) = 3
    /\ (pc \in {"done", "faulted"} /\ button) => Len(calls) >= 1
    /\ (OnScreen("summary") \/ OnScreen("improvements")) =>
          /\ Len(calls) = 4
          /\ pc = "done"

C8_Witness ==
    /\ pc = "done"
    /\ Len(calls) = 4
    /\ OnScreen("improvements")

\* C9: with a successful lookup and a feed that yields no review, the
\* analysis step still runs: it sends the summary request with an empty
\* transcript and, if that succeeds, the improvements request with the same.
C9_EmptyNotGuarded ==
    /\ (pc = "summary" /\ Len(SeenEntries) <= 1) => reviews = <<>>
    /\ (fetched /\ reviews = <<>>) =>
          /\ pc = "summary" => ENABLED AnalyzeSummary
          /\ pc # "summary" =>
                /\ Len(calls) >= 3
                /\ calls[3].kind = "summary"
                /\ calls[3].text = <<>>
          /\ (Len(calls) >= 3 /\ ~calls[3].raised) =>
                \/ pc = "improve" /\ ENABLED AnalyzeImprove
                \/ /\ Len(calls) = 4
                   /\ calls[4].kind = "improve"
                   /\ calls[4].text = <<>>

C9_Witness ==
    /\ fetched
    /\ reviews = <<>>
    /\ pc = "done"
    /\ Len(calls) = 4
    /\ OnScreen("summary")

\* C10: the summary block is on the page only if both completion requests
\* succeeded, and then the improvements block follows it; when the second
\* request faults neither block is there, but 'Found' and 'Fetched N' are.
C10_AllOrNothing ==
    /\ \A k \in 1..Len(screen) : screen[k].kind = "summary" =>
          /\ Len(calls) = 4
          /\ \A c \in {3, 4} : calls[c].status = "ok" /\ ~calls[c].raised
          /\ \E j \in (k + 1)..Len(screen) : screen[j].kind = "improvements"
    /\ (Len(calls) = 4 /\ calls[4].raised) =>
          /\ ~OnScreen("summary")
          /\ ~OnScreen("improvements")
          /\ OnScreen("success")
          /\ \E k \in 1..Len(screen) :
               screen[k] = Item("fetched", Len(reviews), <<>>)

C10_Witness ==
    /\ Len(calls) = 4
    /\ calls[4].status = "fault"
    /\ OnScreen("fetched")

====
